---- MODULE Spec2Model ----
(***************************************************************************)
(* MHD_Nodet: hypergraph network configuration of the three training       *)
(* pipelines (node_cls_train, node_cls_train_poly_unicomnet,               *)
(* node_seg_train), the forward pass over the glued global hypergraph,     *)
(* the epoch loop with early stopping, best-checkpoint saving and batch    *)
(* seeds, the warm-up branch of WarmupCosineAnnealingLR, the epoch loop    *)
(* under the configured hyperparameters, the loading of pretrained         *)
(* weights, the data preparation of main() and the batch loop of train()   *)
(* and validate().                                                         *)
(***************************************************************************)
EXTENDS Integers, Sequences, FiniteSets, TLC

(* Configuration of node_cls_train.main *)

cls_num_epochs == 400

cls_validation_interval == 1

cls_patience == 40

cls_warmup_epochs == 20

cls_save_hdnet_no_classifier == [encoder |-> "encoder.pth", decoder |-> "decoder.pth"]

cls_save_hdnet == [encoder |-> "encoder.pth", decoder |-> "decoder.pth", classifier |-> "classifier.pth"]

cls_node_configs_encoder == [n0 |-> <<1, 64, 64, 64>>, n1 |-> <<1, 64, 64, 64>>, n2 |-> <<1, 64, 64, 64>>, n3 |-> <<1, 64, 64, 64>>, n4 |-> <<1, 64, 64, 64>>, n5 |-> <<32, 64, 64, 64>>, n6 |-> <<64, 32, 32, 32>>, n7 |-> <<128, 16, 16, 16>>, n8 |-> <<256, 8, 8, 8>>, n9 |-> <<512, 4, 4, 4>>]

cls_hyperedge_configs_encoder == [e1 |-> [src_nodes |-> <<"n0", "n1", "n2", "n3", "n4">>, dst_nodes |-> <<"n5">>, convs |-> <<<<32, 5, 3, 3, 3>>, <<32, 32, 3, 3, 3>>>>],
   e2 |-> [src_nodes |-> <<"n5">>, dst_nodes |-> <<"n6">>, convs |-> <<<<64, 32, 3, 3, 3>>, <<64, 64, 3, 3, 3>>>>],
   e3 |-> [src_nodes |-> <<"n6">>, dst_nodes |-> <<"n7">>, convs |-> <<<<128, 64, 3, 3, 3>>, <<128, 128, 3, 3, 3>>>>],
   e4 |-> [src_nodes |-> <<"n7">>, dst_nodes |-> <<"n8">>, convs |-> <<<<256, 128, 3, 3, 3>>, <<256, 256, 3, 3, 3>>>>],
   e5 |-> [src_nodes |-> <<"n8">>, dst_nodes |-> <<"n9">>, convs |-> <<<<512, 256, 3, 3, 3>>, <<512, 512, 3, 3, 3>>>>]]

cls_in_nodes_encoder == <<"n0", "n1", "n2", "n3", "n4">>

cls_out_nodes_encoder == <<"n9", "n8", "n7", "n6", "n5">>

cls_node_configs_decoder == [n0 |-> <<512, 4, 4, 4>>, n1 |-> <<256, 8, 8, 8>>, n2 |-> <<128, 16, 16, 16>>, n3 |-> <<64, 32, 32, 32>>, n4 |-> <<32, 64, 64, 64>>, n5 |-> <<256, 8, 8, 8>>, n6 |-> <<128, 16, 16, 16>>, n7 |-> <<64, 32, 32, 32>>, n8 |-> <<32, 64, 64, 64>>, n9 |-> <<32, 64, 64, 64>>]

cls_hyperedge_configs_decoder == [e1 |-> [src_nodes |-> <<"n0">>, dst_nodes |-> <<"n5">>, convs |-> <<<<256, 512, 1, 1, 1>>, <<256, 256, 3, 3, 3>>>>],
   e2 |-> [src_nodes |-> <<"n1", "n5">>, dst_nodes |-> <<"n6">>, convs |-> <<<<128, 512, 1, 1, 1>>, <<128, 128, 3, 3, 3>>>>],
   e3 |-> [src_nodes |-> <<"n2", "n6">>, dst_nodes |-> <<"n7">>, convs |-> <<<<64, 256, 1, 1, 1>>, <<64, 64, 3, 3, 3>>>>],
   e4 |-> [src_nodes |-> <<"n3", "n7">>, dst_nodes |-> <<"n8">>, convs |-> <<<<32, 128, 1, 1, 1>>, <<32, 32, 3, 3, 3>>>>],
   e5 |-> [src_nodes |-> <<"n4", "n8">>, dst_nodes |-> <<"n9">>, convs |-> <<<<32, 64, 3, 3, 3>>, <<32, 32, 3, 3, 3>>>>]]

cls_in_nodes_decoder == <<"n0", "n1", "n2", "n3", "n4">>

cls_out_nodes_decoder == <<"n9">>

(* variant: classifier input declared with 64 channels *)
cls_node_configs_classifier_n0_64 == [n0 |-> <<64, 64, 64, 64>>, n1 |-> <<8, 1, 1, 1>>, n2 |-> <<8, 1, 1, 1>>]

cls_node_configs_classifier == [n0 |-> <<32, 64, 64, 64>>, n1 |-> <<8, 1, 1, 1>>, n2 |-> <<8, 1, 1, 1>>]

cls_hyperedge_configs_classifier == [e1 |-> [src_nodes |-> <<"n0">>, dst_nodes |-> <<"n1">>, convs |-> <<<<8, 32, 1, 1, 1>>>>]]

cls_in_nodes_classifier == <<"n0", "n2">>

cls_out_nodes_classifier == <<"n1", "n2">>

cls_node_mapping == <<<<"n100", "encoder", "n0">>,
    <<"n101", "encoder", "n1">>,
    <<"n102", "encoder", "n2">>,
    <<"n103", "encoder", "n3">>,
    <<"n104", "encoder", "n4">>,
    <<"n105", "encoder", "n9">>,
    <<"n105", "decoder", "n0">>,
    <<"n106", "encoder", "n8">>,
    <<"n106", "decoder", "n1">>,
    <<"n107", "encoder", "n7">>,
    <<"n107", "decoder", "n2">>,
    <<"n108", "encoder", "n6">>,
    <<"n108", "decoder", "n3">>,
    <<"n109", "encoder", "n5">>,
    <<"n109", "decoder", "n4">>,
    <<"n110", "decoder", "n9">>,
    <<"n110", "classifier", "n0">>,
    <<"n115", "classifier", "n1">>,
    <<"n116", "classifier", "n2">>>>

cls_sub_networks_configs == [encoder |-> [node_configs |-> cls_node_configs_encoder, hyperedge_configs |-> cls_hyperedge_configs_encoder, in_nodes |-> cls_in_nodes_encoder, out_nodes |-> cls_out_nodes_encoder],
   decoder |-> [node_configs |-> cls_node_configs_decoder, hyperedge_configs |-> cls_hyperedge_configs_decoder, in_nodes |-> cls_in_nodes_decoder, out_nodes |-> cls_out_nodes_decoder],
   classifier |-> [node_configs |-> cls_node_configs_classifier, hyperedge_configs |-> cls_hyperedge_configs_classifier, in_nodes |-> cls_in_nodes_classifier, out_nodes |-> cls_out_nodes_classifier]]

(* variant: the label node n116 is not a global input *)
cls_in_nodes_no_label == <<"n100", "n101", "n102", "n103", "n104">>

cls_in_nodes == <<"n100", "n101", "n102", "n103", "n104", "n116">>

cls_out_nodes == <<"n115", "n116">>

cls_load_node == <<<<"n100", "0000.nii.gz">>, <<"n101", "0001.nii.gz">>, <<"n102", "0002.nii.gz">>, <<"n103", "0003.nii.gz">>, <<"n104", "0004.nii.gz">>, <<"n116", "0005.csv">>>>

(* Configuration of node_cls_train_poly_unicomnet.main *)

poly_num_epochs == 400

poly_validation_interval == 1

poly_patience == 100

poly_save_hdnet == [encoder1 |-> "encoder1.pth", decoder1 |-> "decoder1.pth", encoder2 |-> "encoder2.pth", decoder2 |-> "decoder2.pth", classifier_n5 |-> "classifier_n5.pth", classifier_n6 |-> "classifier_n6.pth", classifier_n7 |-> "classifier_n7.pth", classifier_n8 |-> "classifier_n8.pth", classifier_n9 |-> "classifier_n9.pth", label_net |-> "label_net.pth", unicom_n5 |-> "unicom_n5.pth", unicom_n6 |-> "unicom_n6.pth", unicom_n7 |-> "unicom_n7.pth", unicom_n8 |-> "unicom_n8.pth", unicom_n9 |-> "unicom_n9.pth"]

poly_node_configs_encoder1 == [n0 |-> <<1, 64, 64, 64>>, n1 |-> <<1, 64, 64, 64>>, n2 |-> <<1, 64, 64, 64>>, n3 |-> <<1, 64, 64, 64>>, n4 |-> <<1, 64, 64, 64>>, n5 |-> <<32, 64, 64, 64>>, n6 |-> <<64, 32, 32, 32>>, n7 |-> <<128, 16, 16, 16>>, n8 |-> <<256, 8, 8, 8>>, n9 |-> <<512, 4, 4, 4>>]

poly_hyperedge_configs_encoder1 == [e1 |-> [src_nodes |-> <<"n0", "n1", "n2", "n3", "n4">>, dst_nodes |-> <<"n5">>, convs |-> <<<<32, 5, 3, 3, 3>>, <<32, 32, 3, 3, 3>>>>],
   e2 |-> [src_nodes |-> <<"n5">>, dst_nodes |-> <<"n6">>, convs |-> <<<<64, 32, 3, 3, 3>>, <<64, 64, 3, 3, 3>>>>],
   e3 |-> [src_nodes |-> <<"n6">>, dst_nodes |-> <<"n7">>, convs |-> <<<<128, 64, 3, 3, 3>>, <<128, 128, 3, 3, 3>>>>],
   e4 |-> [src_nodes |-> <<"n7">>, dst_nodes |-> <<"n8">>, convs |-> <<<<256, 128, 3, 3, 3>>, <<256, 256, 3, 3, 3>>>>],
   e5 |-> [src_nodes |-> <<"n8">>, dst_nodes |-> <<"n9">>, convs |-> <<<<512, 256, 3, 3, 3>>, <<512, 512, 3, 3, 3>>>>]]

poly_in_nodes_encoder1 == <<"n0", "n1", "n2", "n3", "n4">>

poly_out_nodes_encoder1 == <<"n9", "n8", "n7", "n6", "n5">>

poly_node_configs_decoder1 == [n0 |-> <<512, 4, 4, 4>>, n1 |-> <<256, 8, 8, 8>>, n2 |-> <<128, 16, 16, 16>>, n3 |-> <<64, 32, 32, 32>>, n4 |-> <<32, 64, 64, 64>>, n5 |-> <<256, 8, 8, 8>>, n6 |-> <<128, 16, 16, 16>>, n7 |-> <<64, 32, 32, 32>>, n8 |-> <<32, 64, 64, 64>>, n9 |-> <<32, 64, 64, 64>>]

poly_hyperedge_configs_decoder1 == [e1 |-> [src_nodes |-> <<"n0">>, dst_nodes |-> <<"n5">>, convs |-> <<<<256, 512, 1, 1, 1>>, <<256, 256, 3, 3, 3>>>>],
   e2 |-> [src_nodes |-> <<"n1", "n5">>, dst_nodes |-> <<"n6">>, convs |-> <<<<128, 512, 1, 1, 1>>, <<128, 128, 3, 3, 3>>>>],
   e3 |-> [src_nodes |-> <<"n2", "n6">>, dst_nodes |-> <<"n7">>, convs |-> <<<<64, 256, 1, 1, 1>>, <<64, 64, 3, 3, 3>>>>],
   e4 |-> [src_nodes |-> <<"n3", "n7">>, dst_nodes |-> <<"n8">>, convs |-> <<<<32, 128, 1, 1, 1>>, <<32, 32, 3, 3, 3>>>>],
   e5 |-> [src_nodes |-> <<"n4", "n8">>, dst_nodes |-> <<"n9">>, convs |-> <<<<32, 64, 3, 3, 3>>, <<32, 32, 3, 3, 3>>>>]]

poly_in_nodes_decoder1 == <<"n0", "n1", "n2", "n3", "n4">>

poly_out_nodes_decoder1 == <<"n9", "n8", "n7", "n6", "n5">>

poly_node_configs_encoder2 == [n0 |-> <<32, 64, 64, 64>>, n5 |-> <<32, 64, 64, 64>>, n6 |-> <<64, 32, 32, 32>>, n7 |-> <<128, 16, 16, 16>>, n8 |-> <<256, 8, 8, 8>>, n9 |-> <<512, 4, 4, 4>>]

poly_hyperedge_configs_encoder2 == [e1 |-> [src_nodes |-> <<"n0">>, dst_nodes |-> <<"n5">>, convs |-> <<<<32, 32, 3, 3, 3>>, <<32, 32, 3, 3, 3>>>>],
   e2 |-> [src_nodes |-> <<"n5">>, dst_nodes |-> <<"n6">>, convs |-> <<<<64, 32, 3, 3, 3>>, <<64, 64, 3, 3, 3>>>>],
   e3 |-> [src_nodes |-> <<"n6">>, dst_nodes |-> <<"n7">>, convs |-> <<<<128, 64, 3, 3, 3>>, <<128, 128, 3, 3, 3>>>>],
   e4 |-> [src_nodes |-> <<"n7">>, dst_nodes |-> <<"n8">>, convs |-> <<<<256, 128, 3, 3, 3>>, <<256, 256, 3, 3, 3>>>>],
   e5 |-> [src_nodes |-> <<"n8">>, dst_nodes |-> <<"n9">>, convs |-> <<<<512, 256, 3, 3, 3>>, <<512, 512, 3, 3, 3>>>>]]

poly_in_nodes_encoder2 == <<"n0">>

poly_out_nodes_encoder2 == <<"n9", "n8", "n7", "n6", "n5">>

poly_node_configs_decoder2 == [n0 |-> <<512, 4, 4, 4>>, n1 |-> <<256, 8, 8, 8>>, n2 |-> <<128, 16, 16, 16>>, n3 |-> <<64, 32, 32, 32>>, n4 |-> <<32, 64, 64, 64>>, n5 |-> <<256, 8, 8, 8>>, n6 |-> <<128, 16, 16, 16>>, n7 |-> <<64, 32, 32, 32>>, n8 |-> <<32, 64, 64, 64>>, n9 |-> <<32, 64, 64, 64>>]

poly_hyperedge_configs_decoder2 == [e1 |-> [src_nodes |-> <<"n0">>, dst_nodes |-> <<"n5">>, convs |-> <<<<256, 512, 1, 1, 1>>, <<256, 256, 3, 3, 3>>>>],
   e2 |-> [src_nodes |-> <<"n1", "n5">>, dst_nodes |-> <<"n6">>, convs |-> <<<<128, 512, 1, 1, 1>>, <<128, 128, 3, 3, 3>>>>],
   e3 |-> [src_nodes |-> <<"n2", "n6">>, dst_nodes |-> <<"n7">>, convs |-> <<<<64, 256, 1, 1, 1>>, <<64, 64, 3, 3, 3>>>>],
   e4 |-> [src_nodes |-> <<"n3", "n7">>, dst_nodes |-> <<"n8">>, convs |-> <<<<32, 128, 1, 1, 1>>, <<32, 32, 3, 3, 3>>>>],
   e5 |-> [src_nodes |-> <<"n4", "n8">>, dst_nodes |-> <<"n9">>, convs |-> <<<<32, 64, 3, 3, 3>>, <<32, 32, 3, 3, 3>>>>]]

poly_in_nodes_decoder2 == <<"n0", "n1", "n2", "n3", "n4">>

poly_out_nodes_decoder2 == <<"n5", "n6", "n7", "n8", "n9">>

poly_node_configs_unicom_n5 == [n0 |-> <<256, 8, 8, 8>>, n1 |-> <<256, 8, 8, 8>>, n2 |-> <<256, 8, 8, 8>>, n3 |-> <<256, 8, 8, 8>>]

poly_hyperedge_configs_unicom_n5 == [e1 |-> [src_nodes |-> <<"n0", "n1">>, dst_nodes |-> <<"n2", "n3">>, convs |-> <<<<512, 512, 1, 1, 1>>>>]]

poly_in_nodes_unicom_n5 == <<"n0", "n1">>

poly_out_nodes_unicom_n5 == <<"n2", "n3">>

poly_node_configs_unicom_n6 == [n0 |-> <<128, 16, 16, 16>>, n1 |-> <<128, 16, 16, 16>>, n2 |-> <<128, 16, 16, 16>>, n3 |-> <<128, 16, 16, 16>>]

poly_hyperedge_configs_unicom_n6 == [e1 |-> [src_nodes |-> <<"n0", "n1">>, dst_nodes |-> <<"n2", "n3">>, convs |-> <<<<256, 256, 1, 1, 1>>>>]]

poly_in_nodes_unicom_n6 == <<"n0", "n1">>

poly_out_nodes_unicom_n6 == <<"n2", "n3">>

poly_node_configs_unicom_n7 == [n0 |-> <<64, 32, 32, 32>>, n1 |-> <<64, 32, 32, 32>>, n2 |-> <<64, 32, 32, 32>>, n3 |-> <<64, 32, 32, 32>>]

poly_hyperedge_configs_unicom_n7 == [e1 |-> [src_nodes |-> <<"n0", "n1">>, dst_nodes |-> <<"n2", "n3">>, convs |-> <<<<128, 128, 1, 1, 1>>>>]]

poly_in_nodes_unicom_n7 == <<"n0", "n1">>

poly_out_nodes_unicom_n7 == <<"n2", "n3">>

poly_node_configs_unicom_n8 == [n0 |-> <<32, 64, 64, 64>>, n1 |-> <<32, 64, 64, 64>>, n2 |-> <<32, 64, 64, 64>>, n3 |-> <<32, 64, 64, 64>>]

poly_hyperedge_configs_unicom_n8 == [e1 |-> [src_nodes |-> <<"n0", "n1">>, dst_nodes |-> <<"n2", "n3">>, convs |-> <<<<64, 64, 1, 1, 1>>>>]]

poly_in_nodes_unicom_n8 == <<"n0", "n1">>

poly_out_nodes_unicom_n8 == <<"n2", "n3">>

poly_node_configs_unicom_n9 == [n0 |-> <<32, 64, 64, 64>>, n1 |-> <<32, 64, 64, 64>>, n2 |-> <<32, 64, 64, 64>>, n3 |-> <<32, 64, 64, 64>>]

poly_hyperedge_configs_unicom_n9 == [e1 |-> [src_nodes |-> <<"n0", "n1">>, dst_nodes |-> <<"n2", "n3">>, convs |-> <<<<64, 64, 1, 1, 1>>>>]]

poly_in_nodes_unicom_n9 == <<"n0", "n1">>

poly_out_nodes_unicom_n9 == <<"n2", "n3">>

poly_node_configs_classifier_n5 == [n0 |-> <<256, 8, 8, 8>>, n1 |-> <<4, 1, 1, 1>>]

poly_hyperedge_configs_classifier_n5 == [e1 |-> [src_nodes |-> <<"n0">>, dst_nodes |-> <<"n1">>, convs |-> <<<<4, 256, 1, 1, 1>>>>]]

poly_in_nodes_classifier_n5 == <<"n0">>

poly_out_nodes_classifier_n5 == <<"n1">>

poly_node_configs_classifier_n6 == [n0 |-> <<128, 16, 16, 16>>, n1 |-> <<4, 1, 1, 1>>]

poly_hyperedge_configs_classifier_n6 == [e1 |-> [src_nodes |-> <<"n0">>, dst_nodes |-> <<"n1">>, convs |-> <<<<4, 128, 1, 1, 1>>>>]]

poly_in_nodes_classifier_n6 == <<"n0">>

poly_out_nodes_classifier_n6 == <<"n1">>

poly_node_configs_classifier_n7 == [n0 |-> <<64, 32, 32, 32>>, n1 |-> <<4, 1, 1, 1>>]

poly_hyperedge_configs_classifier_n7 == [e1 |-> [src_nodes |-> <<"n0">>, dst_nodes |-> <<"n1">>, convs |-> <<<<4, 64, 1, 1, 1>>>>]]

poly_in_nodes_classifier_n7 == <<"n0">>

poly_out_nodes_classifier_n7 == <<"n1">>

poly_node_configs_classifier_n8 == [n0 |-> <<32, 64, 64, 64>>, n1 |-> <<4, 1, 1, 1>>]

poly_hyperedge_configs_classifier_n8 == [e1 |-> [src_nodes |-> <<"n0">>, dst_nodes |-> <<"n1">>, convs |-> <<<<4, 32, 1, 1, 1>>>>]]

poly_in_nodes_classifier_n8 == <<"n0">>

poly_out_nodes_classifier_n8 == <<"n1">>

poly_node_configs_classifier_n9 == [n0 |-> <<32, 64, 64, 64>>, n1 |-> <<4, 1, 1, 1>>]

poly_hyperedge_configs_classifier_n9 == [e1 |-> [src_nodes |-> <<"n0">>, dst_nodes |-> <<"n1">>, convs |-> <<<<4, 32, 1, 1, 1>>>>]]

poly_in_nodes_classifier_n9 == <<"n0">>

poly_out_nodes_classifier_n9 == <<"n1">>

poly_node_configs_label == [n0 |-> <<4, 1, 1, 1>>]

poly_hyperedge_configs_label == << >>

poly_in_nodes_label == <<"n0">>

poly_out_nodes_label == <<"n0">>

(* variant: unicom_n9 n2 glued to encoder2 n0 as well *)
poly_node_mapping_unicom_n9_n2 == <<<<"n100", "encoder1", "n0">>,
    <<"n101", "encoder1", "n1">>,
    <<"n102", "encoder1", "n2">>,
    <<"n103", "encoder1", "n3">>,
    <<"n104", "encoder1", "n4">>,
    <<"n105", "encoder1", "n9">>,
    <<"n105", "decoder1", "n0">>,
    <<"n106", "encoder1", "n8">>,
    <<"n106", "decoder1", "n1">>,
    <<"n106", "unicom_n5", "n0">>,
    <<"n107", "encoder1", "n7">>,
    <<"n107", "decoder1", "n2">>,
    <<"n107", "unicom_n6", "n0">>,
    <<"n108", "encoder1", "n6">>,
    <<"n108", "decoder1", "n3">>,
    <<"n108", "unicom_n7", "n0">>,
    <<"n109", "encoder1", "n5">>,
    <<"n109", "decoder1", "n4">>,
    <<"n109", "unicom_n8", "n0">>,
    <<"n110", "decoder1", "n9">>,
    <<"n110", "encoder2", "n0">>,
    <<"n110", "unicom_n9", "n0">>,
    <<"n110", "unicom_n9", "n1">>,
    <<"n110", "unicom_n9", "n2">>,
    <<"n111", "encoder2", "n9">>,
    <<"n111", "decoder2", "n0">>,
    <<"n112", "encoder2", "n8">>,
    <<"n112", "decoder2", "n1">>,
    <<"n112", "unicom_n5", "n2">>,
    <<"n113", "encoder2", "n7">>,
    <<"n113", "decoder2", "n2">>,
    <<"n113", "unicom_n6", "n2">>,
    <<"n114", "encoder2", "n6">>,
    <<"n114", "decoder2", "n3">>,
    <<"n114", "unicom_n7", "n2">>,
    <<"n115", "encoder2", "n5">>,
    <<"n115", "decoder2", "n4">>,
    <<"n115", "unicom_n8", "n2">>,
    <<"n116", "decoder1", "n5">>,
    <<"n116", "unicom_n5", "n1">>,
    <<"n117", "decoder1", "n6">>,
    <<"n117", "unicom_n6", "n1">>,
    <<"n118", "decoder1", "n7">>,
    <<"n118", "unicom_n7", "n1">>,
    <<"n119", "decoder1", "n8">>,
    <<"n119", "unicom_n8", "n1">>,
    <<"n120", "decoder2", "n5">>,
    <<"n120", "unicom_n5", "n3">>,
    <<"n120", "classifier_n5", "n0">>,
    <<"n121", "decoder2", "n6">>,
    <<"n121", "unicom_n6", "n3">>,
    <<"n121", "classifier_n6", "n0">>,
    <<"n122", "decoder2", "n7">>,
    <<"n122", "unicom_n7", "n3">>,
    <<"n122", "classifier_n7", "n0">>,
    <<"n123", "decoder2", "n8">>,
    <<"n123", "unicom_n8", "n3">>,
    <<"n123", "classifier_n8", "n0">>,
    <<"n124", "decoder2", "n9">>,
    <<"n124", "unicom_n9", "n3">>,
    <<"n124", "classifier_n9", "n0">>,
    <<"n125", "classifier_n5", "n1">>,
    <<"n126", "classifier_n6", "n1">>,
    <<"n127", "classifier_n7", "n1">>,
    <<"n128", "classifier_n8", "n1">>,
    <<"n129", "classifier_n9", "n1">>,
    <<"n130", "label_net", "n0">>>>

poly_node_mapping == <<<<"n100", "encoder1", "n0">>,
    <<"n101", "encoder1", "n1">>,
    <<"n102", "encoder1", "n2">>,
    <<"n103", "encoder1", "n3">>,
    <<"n104", "encoder1", "n4">>,
    <<"n105", "encoder1", "n9">>,
    <<"n105", "decoder1", "n0">>,
    <<"n106", "encoder1", "n8">>,
    <<"n106", "decoder1", "n1">>,
    <<"n106", "unicom_n5", "n0">>,
    <<"n107", "encoder1", "n7">>,
    <<"n107", "decoder1", "n2">>,
    <<"n107", "unicom_n6", "n0">>,
    <<"n108", "encoder1", "n6">>,
    <<"n108", "decoder1", "n3">>,
    <<"n108", "unicom_n7", "n0">>,
    <<"n109", "encoder1", "n5">>,
    <<"n109", "decoder1", "n4">>,
    <<"n109", "unicom_n8", "n0">>,
    <<"n110", "decoder1", "n9">>,
    <<"n110", "encoder2", "n0">>,
    <<"n110", "unicom_n9", "n0">>,
    <<"n110", "unicom_n9", "n1">>,
    <<"n111", "encoder2", "n9">>,
    <<"n111", "decoder2", "n0">>,
    <<"n112", "encoder2", "n8">>,
    <<"n112", "decoder2", "n1">>,
    <<"n112", "unicom_n5", "n2">>,
    <<"n113", "encoder2", "n7">>,
    <<"n113", "decoder2", "n2">>,
    <<"n113", "unicom_n6", "n2">>,
    <<"n114", "encoder2", "n6">>,
    <<"n114", "decoder2", "n3">>,
    <<"n114", "unicom_n7", "n2">>,
    <<"n115", "encoder2", "n5">>,
    <<"n115", "decoder2", "n4">>,
    <<"n115", "unicom_n8", "n2">>,
    <<"n116", "decoder1", "n5">>,
    <<"n116", "unicom_n5", "n1">>,
    <<"n117", "decoder1", "n6">>,
    <<"n117", "unicom_n6", "n1">>,
    <<"n118", "decoder1", "n7">>,
    <<"n118", "unicom_n7", "n1">>,
    <<"n119", "decoder1", "n8">>,
    <<"n119", "unicom_n8", "n1">>,
    <<"n120", "decoder2", "n5">>,
    <<"n120", "unicom_n5", "n3">>,
    <<"n120", "classifier_n5", "n0">>,
    <<"n121", "decoder2", "n6">>,
    <<"n121", "unicom_n6", "n3">>,
    <<"n121", "classifier_n6", "n0">>,
    <<"n122", "decoder2", "n7">>,
    <<"n122", "unicom_n7", "n3">>,
    <<"n122", "classifier_n7", "n0">>,
    <<"n123", "decoder2", "n8">>,
    <<"n123", "unicom_n8", "n3">>,
    <<"n123", "classifier_n8", "n0">>,
    <<"n124", "decoder2", "n9">>,
    <<"n124", "unicom_n9", "n3">>,
    <<"n124", "classifier_n9", "n0">>,
    <<"n125", "classifier_n5", "n1">>,
    <<"n126", "classifier_n6", "n1">>,
    <<"n127", "classifier_n7", "n1">>,
    <<"n128", "classifier_n8", "n1">>,
    <<"n129", "classifier_n9", "n1">>,
    <<"n130", "label_net", "n0">>>>

poly_sub_networks_configs == [encoder1 |-> [node_configs |-> poly_node_configs_encoder1, hyperedge_configs |-> poly_hyperedge_configs_encoder1, in_nodes |-> poly_in_nodes_encoder1, out_nodes |-> poly_out_nodes_encoder1],
   decoder1 |-> [node_configs |-> poly_node_configs_decoder1, hyperedge_configs |-> poly_hyperedge_configs_decoder1, in_nodes |-> poly_in_nodes_decoder1, out_nodes |-> poly_out_nodes_decoder1],
   encoder2 |-> [node_configs |-> poly_node_configs_encoder2, hyperedge_configs |-> poly_hyperedge_configs_encoder2, in_nodes |-> poly_in_nodes_encoder2, out_nodes |-> poly_out_nodes_encoder2],
   decoder2 |-> [node_configs |-> poly_node_configs_decoder2, hyperedge_configs |-> poly_hyperedge_configs_decoder2, in_nodes |-> poly_in_nodes_decoder2, out_nodes |-> poly_out_nodes_decoder2],
   unicom_n5 |-> [node_configs |-> poly_node_configs_unicom_n5, hyperedge_configs |-> poly_hyperedge_configs_unicom_n5, in_nodes |-> poly_in_nodes_unicom_n5, out_nodes |-> poly_out_nodes_unicom_n5],
   unicom_n6 |-> [node_configs |-> poly_node_configs_unicom_n6, hyperedge_configs |-> poly_hyperedge_configs_unicom_n6, in_nodes |-> poly_in_nodes_unicom_n6, out_nodes |-> poly_out_nodes_unicom_n6],
   unicom_n7 |-> [node_configs |-> poly_node_configs_unicom_n7, hyperedge_configs |-> poly_hyperedge_configs_unicom_n7, in_nodes |-> poly_in_nodes_unicom_n7, out_nodes |-> poly_out_nodes_unicom_n7],
   unicom_n8 |-> [node_configs |-> poly_node_configs_unicom_n8, hyperedge_configs |-> poly_hyperedge_configs_unicom_n8, in_nodes |-> poly_in_nodes_unicom_n8, out_nodes |-> poly_out_nodes_unicom_n8],
   unicom_n9 |-> [node_configs |-> poly_node_configs_unicom_n9, hyperedge_configs |-> poly_hyperedge_configs_unicom_n9, in_nodes |-> poly_in_nodes_unicom_n9, out_nodes |-> poly_out_nodes_unicom_n9],
   classifier_n5 |-> [node_configs |-> poly_node_configs_classifier_n5, hyperedge_configs |-> poly_hyperedge_configs_classifier_n5, in_nodes |-> poly_in_nodes_classifier_n5, out_nodes |-> poly_out_nodes_classifier_n5],
   classifier_n6 |-> [node_configs |-> poly_node_configs_classifier_n6, hyperedge_configs |-> poly_hyperedge_configs_classifier_n6, in_nodes |-> poly_in_nodes_classifier_n6, out_nodes |-> poly_out_nodes_classifier_n6],
   classifier_n7 |-> [node_configs |-> poly_node_configs_classifier_n7, hyperedge_configs |-> poly_hyperedge_configs_classifier_n7, in_nodes |-> poly_in_nodes_classifier_n7, out_nodes |-> poly_out_nodes_classifier_n7],
   classifier_n8 |-> [node_configs |-> poly_node_configs_classifier_n8, hyperedge_configs |-> poly_hyperedge_configs_classifier_n8, in_nodes |-> poly_in_nodes_classifier_n8, out_nodes |-> poly_out_nodes_classifier_n8],
   classifier_n9 |-> [node_configs |-> poly_node_configs_classifier_n9, hyperedge_configs |-> poly_hyperedge_configs_classifier_n9, in_nodes |-> poly_in_nodes_classifier_n9, out_nodes |-> poly_out_nodes_classifier_n9],
   label_net |-> [node_configs |-> poly_node_configs_label, hyperedge_configs |-> poly_hyperedge_configs_label, in_nodes |-> poly_in_nodes_label, out_nodes |-> poly_out_nodes_label]]

poly_in_nodes == <<"n100", "n101", "n102", "n103", "n104", "n130">>

poly_out_nodes == <<"n125", "n126", "n127", "n128", "n129", "n130">>

poly_load_node == <<<<"n100", "0000.nii.gz">>, <<"n101", "0001.nii.gz">>, <<"n102", "0002.nii.gz">>, <<"n103", "0003.nii.gz">>, <<"n104", "0004.nii.gz">>, <<"n130", "0006.csv">>>>

(* Configuration of node_seg_train.main *)

seg_num_epochs == 200

seg_validation_interval == 1

seg_patience == 200

seg_warmup_epochs == 10

seg_node_configs_segmentation == (0 :> <<1, 64, 64, 64>> @@ 1 :> <<1, 64, 64, 64>> @@ 2 :> <<1, 64, 64, 64>> @@ 3 :> <<1, 64, 64, 64>> @@ 4 :> <<2, 64, 64, 64>> @@ 5 :> <<64, 64, 64, 64>> @@ 6 :> <<128, 32, 32, 32>> @@ 7 :> <<64, 64, 64, 64>> @@ 8 :> <<2, 64, 64, 64>> @@ 9 :> <<1, 64, 64, 64>>)

(* variant: e3 sized for node 6 alone, without the skip from node 5 *)
seg_hyperedge_configs_segmentation_e3_128 == [e1 |-> [src_nodes |-> <<0, 1, 2, 3, 4>>, dst_nodes |-> <<5>>, convs |-> <<<<64, 6, 3, 3, 3>>, <<64, 64, 3, 3, 3>>>>],
   e2 |-> [src_nodes |-> <<5>>, dst_nodes |-> <<6>>, convs |-> <<<<128, 64, 3, 3, 3>>, <<128, 128, 3, 3, 3>>>>],
   e3 |-> [src_nodes |-> <<5, 6>>, dst_nodes |-> <<7>>, convs |-> <<<<64, 128, 3, 3, 3>>, <<64, 64, 3, 3, 3>>>>],
   e4 |-> [src_nodes |-> <<7>>, dst_nodes |-> <<8>>, convs |-> <<<<2, 64, 3, 3, 3>>>>],
   e5 |-> [src_nodes |-> <<4>>, dst_nodes |-> <<8>>, convs |-> <<<<2, 2, 1, 1, 1>>>>],
   e6 |-> [src_nodes |-> <<0>>, dst_nodes |-> <<9>>, convs |-> <<<<1, 1, 1, 1, 1>>>>]]

seg_hyperedge_configs_segmentation == [e1 |-> [src_nodes |-> <<0, 1, 2, 3, 4>>, dst_nodes |-> <<5>>, convs |-> <<<<64, 6, 3, 3, 3>>, <<64, 64, 3, 3, 3>>>>],
   e2 |-> [src_nodes |-> <<5>>, dst_nodes |-> <<6>>, convs |-> <<<<128, 64, 3, 3, 3>>, <<128, 128, 3, 3, 3>>>>],
   e3 |-> [src_nodes |-> <<5, 6>>, dst_nodes |-> <<7>>, convs |-> <<<<64, 192, 3, 3, 3>>, <<64, 64, 3, 3, 3>>>>],
   e4 |-> [src_nodes |-> <<7>>, dst_nodes |-> <<8>>, convs |-> <<<<2, 64, 3, 3, 3>>>>],
   e5 |-> [src_nodes |-> <<4>>, dst_nodes |-> <<8>>, convs |-> <<<<2, 2, 1, 1, 1>>>>],
   e6 |-> [src_nodes |-> <<0>>, dst_nodes |-> <<9>>, convs |-> <<<<1, 1, 1, 1, 1>>>>]]

seg_in_nodes_segmentation == <<0, 1, 2, 3, 4>>

seg_out_nodes_segmentation == <<0, 1, 2, 3, 4, 8, 9>>

seg_node_configs_target == (0 :> <<2, 64, 64, 64>>)

seg_hyperedge_configs_target == << >>

seg_in_nodes_target == <<0>>

seg_out_nodes_target == <<0>>

(* variant: segmentation node 8 mapped to both 508 and 509 *)
seg_node_mapping_dup == <<<<100, "segmentation", 0>>,
    <<101, "segmentation", 1>>,
    <<102, "segmentation", 2>>,
    <<103, "segmentation", 3>>,
    <<104, "segmentation", 4>>,
    <<508, "segmentation", 8>>,
    <<509, "segmentation", 8>>,
    <<600, "target", 0>>>>

seg_node_mapping == <<<<100, "segmentation", 0>>,
    <<101, "segmentation", 1>>,
    <<102, "segmentation", 2>>,
    <<103, "segmentation", 3>>,
    <<104, "segmentation", 4>>,
    <<508, "segmentation", 8>>,
    <<509, "segmentation", 9>>,
    <<600, "target", 0>>>>

seg_sub_networks_configs == [segmentation |-> [node_configs |-> seg_node_configs_segmentation, hyperedge_configs |-> seg_hyperedge_configs_segmentation, in_nodes |-> seg_in_nodes_segmentation, out_nodes |-> seg_out_nodes_segmentation],
   target |-> [node_configs |-> seg_node_configs_target, hyperedge_configs |-> seg_hyperedge_configs_target, in_nodes |-> seg_in_nodes_target, out_nodes |-> seg_out_nodes_target]]

seg_in_nodes == <<100, 101, 102, 103, 104, 600>>

seg_out_nodes == <<100, 101, 102, 103, 104, 508, 509, 600>>

seg_node_suffix == <<<<100, "0000">>, <<101, "0001">>, <<102, "0002">>, <<103, "0003">>, <<104, "0004">>, <<600, "0004">>>>

(* ------------------------------------------------------------------ *)
(* The three pipelines and their global configuration                  *)
(* ------------------------------------------------------------------ *)

Pipelines == {"cls", "poly", "seg"}

Range(s) == {s[i] : i \in DOMAIN s}

sub_networks_configs(p) ==
  CASE p = "cls" -> cls_sub_networks_configs
    [] p = "poly" -> poly_sub_networks_configs
    [] p = "seg" -> seg_sub_networks_configs

node_mapping(p) ==
  CASE p = "cls" -> cls_node_mapping
    [] p = "poly" -> poly_node_mapping
    [] p = "seg" -> seg_node_mapping

in_nodes(p) ==
  CASE p = "cls" -> cls_in_nodes
    [] p = "poly" -> poly_in_nodes
    [] p = "seg" -> seg_in_nodes

out_nodes(p) ==
  CASE p = "cls" -> cls_out_nodes
    [] p = "poly" -> poly_out_nodes
    [] p = "seg" -> seg_out_nodes

(* sub_networks = {name: HDNet(node_configs, hyperedge_configs, ...)} *)
sub_networks(p) == DOMAIN sub_networks_configs(p)

(* sub_networks[sub_net_name].node_configs[sub_node_id] *)
NodeShape(p, net, n) == sub_networks_configs(p)[net].node_configs[n]

(* ------------------------------------------------------------------ *)
(* Gluing of sub-network nodes through node_mapping                    *)
(* ------------------------------------------------------------------ *)

(* the global names a (sub-network, local node) pair is mapped to *)
MappedTo(p, net, n) ==
  {m[1] : m \in {x \in Range(node_mapping(p)) : x[2] = net /\ x[3] = n}}

(* the (sub-network, local node) pairs glued to global node g *)
GluedTo(p, g) ==
  {<<m[2], m[3]>> : m \in {x \in Range(node_mapping(p)) : x[1] = g}}

GlobalNames(p) == {m[1] : m \in Range(node_mapping(p))}

(* the node of the global hypergraph a local node becomes: its global   *)
(* name when node_mapping lists it, else a node private to its network  *)
GlobalNode(p, net, n) ==
  IF MappedTo(p, net, n) = {}
    THEN <<net, n>>
    ELSE <<"global", CHOOSE g \in MappedTo(p, net, n) : TRUE>>

(* hyperedges of the global hypergraph: <<sub-network, edge name>> *)
Hyperedges(p) ==
  UNION {{<<net, e>> : e \in DOMAIN sub_networks_configs(p)[net].hyperedge_configs} :
           net \in sub_networks(p)}

EdgeConfig(p, he) == sub_networks_configs(p)[he[1]].hyperedge_configs[he[2]]

SrcGlobal(p, he) == {GlobalNode(p, he[1], n) : n \in Range(EdgeConfig(p, he).src_nodes)}

DstGlobal(p, he) == {GlobalNode(p, he[1], n) : n \in Range(EdgeConfig(p, he).dst_nodes)}

InGlobal(p) == {<<"global", g>> : g \in Range(in_nodes(p))}

OutGlobal(p) == {<<"global", g>> : g \in Range(out_nodes(p))}

(* glued src and dst sets of every hyperedge, per pipeline *)
GluedSrc == [p \in Pipelines |-> [he \in Hyperedges(p) |-> SrcGlobal(p, he)]]

GluedDst == [p \in Pipelines |-> [he \in Hyperedges(p) |-> DstGlobal(p, he)]]

(* e before e2: a dst node of e is the same glued node as a src of e2 *)
DependsOn(p, e, e2) == GluedDst[p][e] \cap GluedSrc[p][e2] # {}

(* Kahn's peeling: repeatedly remove the hyperedges none of whose       *)
(* predecessors remain; what is left lies on or behind a cycle          *)
RECURSIVE Peel(_, _)
Peel(p, E) ==
  LET ready == {e \in E : \A d \in E : ~DependsOn(p, d, e)}
  IN  IF ready = {} THEN E ELSE Peel(p, E \ ready)

Unschedulable == [p \in Pipelines |-> Peel(p, Hyperedges(p))]

(* ------------------------------------------------------------------ *)
(* State                                                               *)
(* ------------------------------------------------------------------ *)

VARIABLES
  pl,                 \* the pipeline whose main() runs
  have,               \* forward pass: global nodes that hold a value
  fired,              \* forward pass: hyperedges already evaluated
  hp,                 \* num_epochs, patience, validation_interval
  nb,                 \* len(dataloaders_train[node]), len(dataloaders_val[node])
  pc,                 \* position of main() in its epoch loop
  epoch,              \* loop variable of "for epoch in range(num_epochs)"
  batch_idx,          \* loop variable of the running batch loop
  batch_seeds,        \* the seeds generated for the current epoch
  datasets_train,     \* batch seed held by each node's train dataset
  datasets_val,       \* batch seed held by each node's validation dataset
  drawn,              \* the batch train()/validate() loaded last
  val_loss,           \* result of the last validate()
  best_val_loss,      \* best_val_loss / best_save_criterion
  epochs_no_improve,
  disk,               \* checkpoint file -> epoch whose weights it holds
  observed,           \* validation losses compared so far: <<epoch, loss>>
  written,            \* epochs in which torch.save wrote the weights
  warmup_epochs,      \* WarmupCosineAnnealingLR.warmup_epochs
  base_lrs,           \* base learning rate of each parameter group
  last_epoch,         \* scheduler epoch index
  lr,                 \* learning rate the scheduler set last
  load_hdnet,         \* weight loading: the (net_name, file) entries, in dict order
  load_idx,           \* weight loading: entries handled so far
  weights,            \* weight loading: sub-network -> "initial" or "loaded"
  load_log,           \* weight loading: what each handled entry logged
  load_pc,            \* weight loading: position of the loop
  start_pc,           \* data preparation: position of main()
  train_case_ids,     \* case ids found for the train directory
  val_case_ids,       \* case ids found for the val directory
  split_file,         \* the data-split json on disk, or NoFile
  ds_train,           \* node -> case_ids of its train NodeDataset
  ds_val,             \* node -> case_ids of its validation NodeDataset
  dataloaders,        \* nodes that have their DataLoaders
  error_log,          \* logger.error calls of the case-id validation
  fn,                 \* batch loop: "train" or "validate"
  loader_case_ids,    \* batch loop: node -> dataloader.dataset.case_ids
  batch_size,         \* batch loop: dataloader.batch_size
  num_batches,        \* batch loop: len(dataloader)
  batch_no,           \* batch loop: batches handled so far
  warnings,           \* batch loop: batches that logged the mismatch warning
  forwards,           \* batch loop: batches passed to model(inputs_list)
  loss_terms,         \* batch loop: batches added to running_loss
  optimizer_steps     \* batch loop: backward() + optimizer.step() calls

fwdVars == <<have, fired>>

trainVars == <<hp, nb, pc, epoch, batch_idx, batch_seeds, datasets_train, datasets_val,
               drawn, val_loss, best_val_loss, epochs_no_improve, disk, observed,
               written>>

lrVars == <<warmup_epochs, base_lrs, last_epoch, lr>>

loadVars == <<load_hdnet, load_idx, weights, load_log, load_pc>>

startVars == <<start_pc, train_case_ids, val_case_ids, split_file, ds_train, ds_val,
               dataloaders, error_log>>

batchVars == <<fn, loader_case_ids, batch_size, num_batches, batch_no, warnings, forwards,
               loss_terms, optimizer_steps>>

mainVars == <<loadVars, startVars, batchVars>>

vars == <<pl, fwdVars, trainVars, lrVars, mainVars>>

(* the parts of the state a specification does not exercise *)
FwdIdle == have = {} /\ fired = {}

TrainIdle ==
  /\ hp = [num_epochs |-> 0, patience |-> 0, validation_interval |-> 0]
  /\ nb = [train |-> 0, val |-> 0]
  /\ pc = "idle"
  /\ epoch = 0
  /\ batch_idx = 0
  /\ batch_seeds = << >>
  /\ datasets_train = << >>
  /\ datasets_val = << >>
  /\ drawn = << >>
  /\ val_loss = 0
  /\ best_val_loss = 0
  /\ epochs_no_improve = 0
  /\ disk = << >>
  /\ observed = << >>
  /\ written = {}

LrIdle == warmup_epochs = 0 /\ base_lrs = << >> /\ last_epoch = 0 /\ lr = << >>

LoadIdle ==
  /\ load_hdnet = << >>
  /\ load_idx = 0
  /\ weights = << >>
  /\ load_log = << >>
  /\ load_pc = "idle"

StartIdle ==
  /\ start_pc = "idle"
  /\ train_case_ids = {}
  /\ val_case_ids = {}
  /\ split_file = << >>
  /\ ds_train = << >>
  /\ ds_val = << >>
  /\ dataloaders = {}
  /\ error_log = {}

BatchIdle ==
  /\ fn = "idle"
  /\ loader_case_ids = << >>
  /\ batch_size = 0
  /\ num_batches = 0
  /\ batch_no = 0
  /\ warnings = 0
  /\ forwards = 0
  /\ loss_terms = 0
  /\ optimizer_steps = 0

MainIdle == LoadIdle /\ StartIdle /\ BatchIdle

(* ------------------------------------------------------------------ *)
(* Forward pass over the glued hypergraph                              *)
(* ------------------------------------------------------------------ *)

FwdInit ==
  /\ pl \in Pipelines
  /\ have = InGlobal(pl)
  /\ fired = {}
  /\ TrainIdle
  /\ LrIdle
  /\ MainIdle

(* a hyperedge whose src nodes all hold a value is evaluated and gives *)
(* a value to its dst nodes                                            *)
FireHyperedge(he) ==
  /\ he \notin fired
  /\ GluedSrc[pl][he] \subseteq have
  /\ have' = have \cup GluedDst[pl][he]
  /\ fired' = fired \cup {he}
  /\ UNCHANGED <<pl, trainVars, lrVars, mainVars>>

FwdNext == \E he \in Hyperedges(pl) : FireHyperedge(he)

FwdSpec == FwdInit /\ [][FwdNext]_vars

FwdFairSpec == FwdSpec /\ WF_vars(FwdNext)

(* C1: in each pipeline the dependency relation between the hyperedges *)
(* of the glued global hypergraph has no cycle, so the hypergraph can  *)
(* be topologically scheduled.                                         *)
C1_TopologicallySchedulable == Unschedulable[pl] = {}

C1_Witness ==
  /\ pl = "poly"
  /\ <<"unicom_n5", "e1">> \in fired
  /\ <<"decoder2", "e2">> \in fired
  /\ Unschedulable[pl] = {}

(* every src node of every hyperedge and every global out_node is a    *)
(* global in_node or the dst of some hyperedge                         *)
Covered ==
  [p \in Pipelines |->
     LET produced == InGlobal(p) \cup UNION {GluedDst[p][he] : he \in Hyperedges(p)}
     IN  /\ \A he \in Hyperedges(p) : GluedSrc[p][he] \subseteq produced
         /\ OutGlobal(p) \subseteq produced]

PassComplete == OutGlobal(pl) \subseteq have /\ fired = Hyperedges(pl)

(* C2: a forward pass that starts with values on the global in_nodes   *)
(* only and keeps firing enabled hyperedges eventually gives a value   *)
(* to every global out_node, and no hyperedge waits forever; every src *)
(* node and every out_node is an in_node or the dst of a hyperedge.    *)
C2_ForwardPassCompletes == <>(Covered[pl] /\ PassComplete)

C2_Witness == pl = "poly" /\ PassComplete /\ <<"global", "n129">> \in have

(* global nodes whose glued sub-network nodes differ in shape *)
ShapeMismatch ==
  [p \in Pipelines |->
     {g \in GlobalNames(p) :
        \E a, b \in GluedTo(p, g) : NodeShape(p, a[1], a[2]) # NodeShape(p, b[1], b[2])}]

(* C3: all sub-network nodes glued to the same global node have the   *)
(* same shape (channel count and spatial size) in their node_configs.  *)
C3_GluedShapesAgree == ShapeMismatch[pl] = {}

C3_Witness ==
  /\ pl = "poly"
  /\ Cardinality(GluedTo(pl, "n110")) = 4
  /\ <<"encoder2", "e1">> \in fired
  /\ ShapeMismatch[pl] = {}

(* entries of node_mapping that name no sub-network, no node of it, or *)
(* a pair that is also mapped to another global node                   *)
IllFormed ==
  [p \in Pipelines |->
     {m \in Range(node_mapping(p)) :
        \/ m[2] \notin sub_networks(p)
        \/ m[3] \notin DOMAIN sub_networks_configs(p)[m[2]].node_configs
        \/ Cardinality(MappedTo(p, m[2], m[3])) # 1}]

(* C4: node_mapping is a well-formed gluing: every entry names an      *)
(* existing sub-network and a node of its node_configs, and no         *)
(* (sub-network, local node) pair is mapped to two global nodes.       *)
C4_MappingWellFormed == IllFormed[pl] = {}

C4_Witness ==
  /\ pl = "seg"
  /\ <<"segmentation", "e4">> \in fired
  /\ <<"global", 508>> \in have
  /\ IllFormed[pl] = {}

RECURSIVE SumChannels(_, _, _)
SumChannels(p, net, nodes) ==
  IF nodes = << >> THEN 0
  ELSE NodeShape(p, net, Head(nodes))[1] + SumChannels(p, net, Tail(nodes))

ChannelsConsistent(p, he) ==
  LET cfg == EdgeConfig(p, he)
      convs == cfg.convs
  IN  /\ Len(convs) >= 1
      /\ convs[1][2] = SumChannels(p, he[1], cfg.src_nodes)
      /\ \A i \in 1..(Len(convs) - 1) : convs[i][1] = convs[i + 1][2]
      /\ convs[Len(convs)][1] = SumChannels(p, he[1], cfg.dst_nodes)

Inconsistent == [p \in Pipelines |-> {he \in Hyperedges(p) : ~ChannelsConsistent(p, he)}]

(* C5: for every hyperedge the first convolution takes the summed src  *)
(* channels, each convolution feeds the next, and the last convolution *)
(* yields the summed dst channels.                                     *)
C5_ChannelsConsistent == Inconsistent[pl] = {}

C5_Witness ==
  /\ pl = "seg"
  /\ <<"segmentation", "e3">> \in fired
  /\ EdgeConfig(pl, <<"segmentation", "e3">>).convs[1][2] = 192
  /\ Inconsistent[pl] = {}


(* ------------------------------------------------------------------ *)
(* Epoch loop of main(): batch seeds, train(), validate(), best        *)
(* checkpoint and early stopping                                       *)
(* ------------------------------------------------------------------ *)

MaxEpochs == 5

MaxPatience == 3

MaxInterval == 2

MaxBatches == 2

MaxSeed == 1

MaxLoss == 2

(* validation losses; float("inf") is above every one of them *)
Losses == 0..MaxLoss

inf == MaxLoss + 1

(* np.random.randint(0, 1000000): the seeds a batch can be given *)
Seeds == 0..MaxSeed

(* a dataset on which set_batch_seed was never called *)
NoSeed == MaxSeed + 1

HyperParams ==
  [num_epochs : 1..MaxEpochs, patience : 1..MaxPatience, validation_interval : 1..MaxInterval]

load_node(p) ==
  CASE p = "cls" -> cls_load_node
    [] p = "poly" -> poly_load_node
    [] p = "seg" -> seg_node_suffix

(* keys of datasets_train and datasets_val *)
DatasetNodes(p) == {x[1] : x \in Range(load_node(p))}

seg_save_path == "model_best.pth"

(* the files an improving epoch writes *)
SaveFiles(p) ==
  CASE p = "cls" -> {cls_save_hdnet[n] : n \in DOMAIN cls_save_hdnet \cap sub_networks(p)}
    [] p = "poly" -> {poly_save_hdnet[n] : n \in DOMAIN poly_save_hdnet \cap sub_networks(p)}
    [] p = "seg" -> {seg_save_path}

NoDraw == [split |-> "none", batch |-> 0, seeds |-> << >>]

TrainInit ==
  /\ pl \in Pipelines
  /\ FwdIdle
  /\ LrIdle
  /\ MainIdle
  /\ hp \in HyperParams
  /\ nb \in [train : 1..MaxBatches, val : 1..MaxBatches]
  /\ pc = "seeds"
  /\ epoch = 0
  /\ batch_idx = 0
  /\ batch_seeds = << >>
  /\ datasets_train = [n \in DatasetNodes(pl) |-> NoSeed]
  /\ datasets_val = [n \in DatasetNodes(pl) |-> NoSeed]
  /\ drawn = NoDraw
  /\ val_loss = inf
  /\ best_val_loss = inf
  /\ epochs_no_improve = 0
  /\ disk = [f \in SaveFiles(pl) |-> 0]
  /\ observed = << >>
  /\ written = {}

(* batch_seeds = np.random.randint(0, 1000000, size=len(dataloaders_train[node])) *)
GenerateBatchSeeds ==
  /\ pc = "seeds"
  /\ batch_seeds' \in [1..nb.train -> Seeds]
  /\ batch_idx' = 0
  /\ pc' = "assign"
  /\ UNCHANGED <<pl, fwdVars, lrVars, mainVars, hp, nb, epoch, datasets_train, datasets_val, drawn,
                 val_loss, best_val_loss, epochs_no_improve, disk, observed, written>>

(* NodeDataset.set_batch_seed: the dataset holds the seed it was given last *)
set_batch_seed(held, batch_seed) == batch_seed

(* variant: the first node's dataset is left out of the loop *)
SetBatchSeeds_skip_first(datasets, batch_seed) ==
  [n \in DOMAIN datasets |->
     IF n = (CHOOSE m \in DOMAIN datasets : TRUE)
       THEN datasets[n]
       ELSE set_batch_seed(datasets[n], batch_seed)]

(* for node in datasets: datasets[node].set_batch_seed(batch_seed) *)
SetBatchSeeds(datasets, batch_seed) ==
  [n \in DOMAIN datasets |-> set_batch_seed(datasets[n], batch_seed)]

(* one iteration of "for batch_idx in range(len(dataloaders_train[node]))", *)
(* which runs to its end before train() is called                           *)
AssignBatchSeed ==
  /\ pc = "assign"
  /\ batch_idx < nb.train
  /\ LET batch_seed == batch_seeds[batch_idx + 1]
     IN  /\ datasets_train' = SetBatchSeeds(datasets_train, batch_seed)
         /\ datasets_val' = SetBatchSeeds(datasets_val, batch_seed)
  /\ IF batch_idx + 1 < nb.train
       THEN batch_idx' = batch_idx + 1 /\ pc' = "assign"
       ELSE batch_idx' = 0 /\ pc' = "train"
  /\ UNCHANGED <<pl, fwdVars, lrVars, mainVars, hp, nb, epoch, batch_seeds, drawn,
                 val_loss, best_val_loss, epochs_no_improve, disk, observed, written>>

(* (epoch + 1) % validation_interval == 0 *)
Validated(e) == (e + 1) % hp.validation_interval = 0

(* train(): one iteration of its batch loop loads batch batch_idx of every node *)
TrainBatch ==
  /\ pc = "train"
  /\ batch_idx < nb.train
  /\ drawn' = [split |-> "train", batch |-> batch_idx, seeds |-> datasets_train]
  /\ IF batch_idx + 1 < nb.train
       THEN batch_idx' = batch_idx + 1 /\ pc' = "train"
       ELSE batch_idx' = 0 /\ pc' = IF Validated(epoch) THEN "validate" ELSE "step"
  /\ UNCHANGED <<pl, fwdVars, lrVars, mainVars, hp, nb, epoch, batch_seeds, datasets_train, datasets_val,
                 val_loss, best_val_loss, epochs_no_improve, disk, observed, written>>

(* validate(): one iteration of its batch loop; the last one yields val_loss *)
ValidateBatch ==
  /\ pc = "validate"
  /\ batch_idx < nb.val
  /\ drawn' = [split |-> "validate", batch |-> batch_idx, seeds |-> datasets_val]
  /\ IF batch_idx + 1 < nb.val
       THEN batch_idx' = batch_idx + 1 /\ pc' = "validate" /\ val_loss' = val_loss
       ELSE batch_idx' = 0 /\ pc' = "criterion" /\ val_loss' \in Losses
  /\ UNCHANGED <<pl, fwdVars, lrVars, mainVars, hp, nb, epoch, batch_seeds, datasets_train, datasets_val,
                 best_val_loss, epochs_no_improve, disk, observed, written>>

(* variant: a tie with the best loss counts as an improvement *)
ShouldSave_le(loss, best) == loss <= best

(* val_loss < best_val_loss / save_criterion < best_save_criterion *)
ShouldSave(loss, best) == loss < best

(* variant: stop only once patience is exceeded *)
EarlyStop_gt(no_improve, patience) == no_improve > patience

(* epochs_no_improve >= patience *)
EarlyStop(no_improve, patience) == no_improve >= patience

(* the improving branch: new best, counter reset, weights saved *)
SaveBest ==
  /\ pc = "criterion"
  /\ ShouldSave(val_loss, best_val_loss)
  /\ best_val_loss' = val_loss
  /\ epochs_no_improve' = 0
  /\ disk' = [f \in SaveFiles(pl) |-> epoch + 1]
  /\ written' = written \cup {epoch + 1}
  /\ observed' = Append(observed, <<epoch + 1, val_loss>>)
  /\ pc' = "step"
  /\ UNCHANGED <<pl, fwdVars, lrVars, mainVars, hp, nb, epoch, batch_idx, batch_seeds, datasets_train,
                 datasets_val, drawn, val_loss>>

(* the else branch: the counter grows and the loop may break *)
NoImprovement ==
  /\ pc = "criterion"
  /\ ~ShouldSave(val_loss, best_val_loss)
  /\ epochs_no_improve' = epochs_no_improve + hp.validation_interval
  /\ observed' = Append(observed, <<epoch + 1, val_loss>>)
  /\ pc' = IF EarlyStop(epochs_no_improve', hp.patience) THEN "done" ELSE "step"
  /\ UNCHANGED <<pl, fwdVars, lrVars, mainVars, hp, nb, epoch, batch_idx, batch_seeds, datasets_train,
                 datasets_val, drawn, val_loss, best_val_loss, disk, written>>

(* the end of the loop body: the next epoch starts or the range is exhausted *)
EndOfEpoch ==
  /\ pc = "step"
  /\ epoch' = epoch + 1
  /\ pc' = IF epoch + 1 < hp.num_epochs THEN "seeds" ELSE "done"
  /\ UNCHANGED <<pl, fwdVars, lrVars, mainVars, hp, nb, batch_idx, batch_seeds, datasets_train,
                 datasets_val, drawn, val_loss, best_val_loss, epochs_no_improve, disk,
                 observed, written>>

TrainNext ==
  \/ GenerateBatchSeeds
  \/ AssignBatchSeed
  \/ TrainBatch
  \/ ValidateBatch
  \/ SaveBest
  \/ NoImprovement
  \/ EndOfEpoch

TrainSpec == TrainInit /\ [][TrainNext]_vars


(* steps the loop can still take: every action of the loop lowers it *)
StepsPerEpoch == 2 * nb.train + nb.val + 3

StepsDone ==
  CASE pc = "seeds" -> 0
    [] pc = "assign" -> 1 + batch_idx
    [] pc = "train" -> 1 + nb.train + batch_idx
    [] pc = "validate" -> 1 + 2 * nb.train + batch_idx
    [] pc = "criterion" -> 1 + 2 * nb.train + nb.val
    [] pc = "step" -> 2 + 2 * nb.train + nb.val

StepsLeft ==
  IF pc = "done" THEN 0 ELSE (hp.num_epochs - epoch) * StepsPerEpoch - StepsDone

(* number of epochs for which train() has been called *)
EpochsTrained == IF pc = "done" /\ epoch = hp.num_epochs THEN epoch ELSE epoch + 1

C6_LoopInvariant ==
  /\ EpochsTrained <= hp.num_epochs
  /\ pc # "done" => epochs_no_improve < hp.patience /\ StepsLeft > 0 /\ ENABLED TrainNext
  /\ pc = "done" =>
       \/ /\ epoch < hp.num_epochs
          /\ (epoch + 1) % hp.validation_interval = 0
          /\ epochs_no_improve >= hp.patience
       \/ /\ epoch = hp.num_epochs
          /\ epochs_no_improve < hp.patience

C6_Step ==
  /\ StepsLeft' < StepsLeft
  /\ pc = "criterion" =>
       IF val_loss < best_val_loss
         THEN epochs_no_improve' = 0
         ELSE epochs_no_improve' = epochs_no_improve + hp.validation_interval
  /\ pc # "criterion" => epochs_no_improve' = epochs_no_improve

(* C6: epochs_no_improve is 0 after a validated epoch whose loss is    *)
(* strictly below the best so far and otherwise grows by               *)
(* validation_interval; the loop ends at the first validated epoch at  *)
(* which epochs_no_improve >= patience and otherwise runs exactly      *)
(* num_epochs epochs; every step brings the end of the loop nearer, so *)
(* it terminates after at most num_epochs epochs.                      *)
C6_EarlyStopping == [](C6_LoopInvariant) /\ [][C6_Step]_vars

C6_Witness ==
  /\ pc = "done"
  /\ hp.validation_interval = 2
  /\ hp.patience = 1
  /\ hp.num_epochs = 5
  /\ epoch + 1 = 4
  /\ epochs_no_improve = 2

RECURSIVE MinLoss(_)
MinLoss(obs) ==
  IF obs = << >> THEN inf
  ELSE LET m == MinLoss(Tail(obs)) IN IF Head(obs)[2] < m THEN Head(obs)[2] ELSE m

(* epochs whose validation loss is strictly below every earlier one *)
StrictImprovements(obs) ==
  {obs[i][1] : i \in {k \in DOMAIN obs : \A j \in 1..(k - 1) : obs[k][2] < obs[j][2]}}

(* the earliest epoch that achieved the minimum; 0 before any validation *)
EarliestMinEpoch(obs) ==
  IF obs = << >> THEN 0
  ELSE obs[CHOOSE i \in DOMAIN obs :
             /\ obs[i][2] = MinLoss(obs)
             /\ \A j \in 1..(i - 1) : obs[j][2] # MinLoss(obs)][1]

C7_BetweenEpochs ==
  pc # "criterion" =>
    /\ best_val_loss = MinLoss(observed)
    /\ written = StrictImprovements(observed)
    /\ \A f \in DOMAIN disk : disk[f] = EarliestMinEpoch(observed)

C8_BatchConsistentSeed ==
  drawn # NoDraw =>
    /\ DOMAIN drawn.seeds = DatasetNodes(pl)
    /\ \A n, m \in DOMAIN drawn.seeds : drawn.seeds[n] = drawn.seeds[m]
    /\ \A n \in DOMAIN drawn.seeds : drawn.seeds[n] \in Seeds

C8_Witness ==
  /\ drawn.split = "validate"
  /\ drawn.batch = 1
  /\ epoch = 1
  /\ \A n \in DOMAIN drawn.seeds : drawn.seeds[n] = 1

(* C9: when train() loads batch number b of an epoch, the batch seed   *)
(* of the train datasets is batch_seeds[b] of that epoch.              *)
C9_EachBatchOwnSeed ==
  drawn.split = "train" =>
    \A n \in DOMAIN drawn.seeds : drawn.seeds[n] = batch_seeds[drawn.batch + 1]


(* ------------------------------------------------------------------ *)
(* WarmupCosineAnnealingLR                                             *)
(* ------------------------------------------------------------------ *)

MaxWarmup == 4

MaxGroups == 2

MaxBaseLr == 3

MaxSchedulerEpochs == 6

(* a learning rate is the exact quotient num / den of the float the    *)
(* code computes; the branch records which formula produced it         *)
Rate(branch, num, den) == [branch |-> branch, num |-> num, den |-> den]

(* super().get_lr(): the cosine-annealing value, left uninterpreted *)
CosineAnnealing(base_lr) == Rate("cosine", 0, 1)

(* base_lr * ((last_epoch + 1) / warmup_epochs) *)
WarmupRate(e, warmup, base_lr) ==
  IF warmup = 0
    THEN Rate("ZeroDivisionError", 0, 0)
    ELSE Rate("warmup", base_lr * (e + 1), warmup)

(* variant: the warm-up branch is also taken at last_epoch = warmup_epochs *)
get_lr_le(e, warmup, lrs) ==
  IF e <= warmup
    THEN [i \in DOMAIN lrs |-> WarmupRate(e, warmup, lrs[i])]
    ELSE [i \in DOMAIN lrs |-> CosineAnnealing(lrs[i])]

(* WarmupCosineAnnealingLR.get_lr *)
get_lr(e, warmup, lrs) ==
  IF e < warmup
    THEN [i \in DOMAIN lrs |-> WarmupRate(e, warmup, lrs[i])]
    ELSE [i \in DOMAIN lrs |-> CosineAnnealing(lrs[i])]

(* the scheduler of node_cls_train and node_seg_train after __init__: the *)
(* base class has stepped once                                           *)
LrInit ==
  /\ pl \in {"cls", "seg"}
  /\ FwdIdle
  /\ TrainIdle
  /\ MainIdle
  /\ warmup_epochs \in 0..MaxWarmup
  /\ base_lrs \in UNION {[1..g -> 1..MaxBaseLr] : g \in 1..MaxGroups}
  /\ last_epoch = 0
  /\ lr = get_lr(0, warmup_epochs, base_lrs)

(* scheduler.step() *)
SchedulerStep ==
  /\ last_epoch < MaxSchedulerEpochs
  /\ last_epoch' = last_epoch + 1
  /\ lr' = get_lr(last_epoch', warmup_epochs, base_lrs)
  /\ UNCHANGED <<pl, fwdVars, trainVars, mainVars, warmup_epochs, base_lrs>>

LrNext == SchedulerStep

LrSpec == LrInit /\ [][LrNext]_vars

C10_Schedule ==
  /\ DOMAIN lr = DOMAIN base_lrs
  /\ \A i \in DOMAIN lr :
       /\ lr[i].branch # "ZeroDivisionError"
       /\ last_epoch >= warmup_epochs => lr[i].branch = "cosine"
       /\ last_epoch < warmup_epochs =>
            /\ lr[i].branch = "warmup"
            /\ lr[i].num * warmup_epochs = base_lrs[i] * (last_epoch + 1) * lr[i].den
            /\ lr[i].num <= base_lrs[i] * lr[i].den
            /\ last_epoch = warmup_epochs - 1 => lr[i].num = base_lrs[i] * lr[i].den

C10_Increasing ==
  last_epoch' < warmup_epochs =>
    \A i \in DOMAIN lr : lr'[i].num * lr[i].den > lr[i].num * lr'[i].den

(* C10: for 0 <= e < warmup_epochs the learning rate of each parameter *)
(* group is base_lr * (e + 1) / warmup_epochs: strictly increasing,    *)
(* never above base_lr and equal to it at e = warmup_epochs - 1; the   *)
(* warm-up branch is taken for no e >= warmup_epochs, so               *)
(* warmup_epochs = 0 never divides by zero.                            *)
C10_WarmupSchedule == [](C10_Schedule) /\ [][C10_Increasing]_vars

C10_Witness ==
  /\ warmup_epochs = 3
  /\ last_epoch = 2
  /\ Len(base_lrs) = 2
  /\ \A i \in DOMAIN lr : lr[i].branch = "warmup" /\ lr[i].num = base_lrs[i] * lr[i].den


(* ------------------------------------------------------------------ *)
(* The epoch loop under the hyperparameters each pipeline configures   *)
(* ------------------------------------------------------------------ *)

(* the hyperparameter block of each main() *)
ConfiguredHp(p) ==
  CASE p = "cls" -> [num_epochs |-> cls_num_epochs, patience |-> cls_patience,
                     validation_interval |-> cls_validation_interval]
    [] p = "poly" -> [num_epochs |-> poly_num_epochs, patience |-> poly_patience,
                      validation_interval |-> poly_validation_interval]
    [] p = "seg" -> [num_epochs |-> seg_num_epochs, patience |-> seg_patience,
                     validation_interval |-> seg_validation_interval]

(* what validate() can return: a finite loss, or a loss that compares  *)
(* below nothing (inf, nan)                                            *)
ValLosses == Losses \cup {inf}

RunInit ==
  /\ pl \in Pipelines
  /\ FwdIdle
  /\ LrIdle
  /\ MainIdle
  /\ hp = ConfiguredHp(pl)
  /\ nb = [train |-> 0, val |-> 0]
  /\ pc = "seeds"
  /\ epoch = 0
  /\ batch_idx = 0
  /\ batch_seeds = << >>
  /\ datasets_train = << >>
  /\ datasets_val = << >>
  /\ drawn = << >>
  /\ val_loss = inf
  /\ best_val_loss = inf
  /\ epochs_no_improve = 0
  /\ disk = [f \in SaveFiles(pl) |-> 0]
  /\ observed = << >>
  /\ written = {}

(* one pass through the body of "for epoch in range(num_epochs)":      *)
(* train(), then on a validated epoch validate(), the comparison with  *)
(* the best loss, the save or the counter, and the break               *)
RunEpoch ==
  /\ pc = "seeds"
  /\ IF Validated(epoch)
       THEN \E loss \in ValLosses :
              /\ val_loss' = loss
              /\ IF ShouldSave(loss, best_val_loss)
                   THEN /\ best_val_loss' = loss
                        /\ epochs_no_improve' = 0
                        /\ disk' = [f \in SaveFiles(pl) |-> epoch + 1]
                        /\ epoch' = epoch + 1
                        /\ pc' = IF epoch + 1 < hp.num_epochs THEN "seeds" ELSE "done"
                   ELSE /\ epochs_no_improve' = epochs_no_improve + hp.validation_interval
                        /\ IF EarlyStop(epochs_no_improve', hp.patience)
                             THEN epoch' = epoch /\ pc' = "done"
                             ELSE /\ epoch' = epoch + 1
                                  /\ pc' = IF epoch + 1 < hp.num_epochs THEN "seeds" ELSE "done"
                        /\ UNCHANGED <<best_val_loss, disk>>
       ELSE /\ epoch' = epoch + 1
            /\ pc' = IF epoch + 1 < hp.num_epochs THEN "seeds" ELSE "done"
            /\ UNCHANGED <<val_loss, best_val_loss, epochs_no_improve, disk>>
  /\ UNCHANGED <<pl, fwdVars, lrVars, mainVars, hp, nb, batch_idx, batch_seeds,
                 datasets_train, datasets_val, drawn, observed, written>>

RunNext == RunEpoch

RunSpec == RunInit /\ [][RunNext]_vars

(* no validated epoch after the first one improved on the best loss *)
Stagnated ==
  epochs_no_improve >=
    ((EpochsTrained \div hp.validation_interval) - 1) * hp.validation_interval

(* the loop of node_seg_train has ended after fewer than num_epochs epochs *)
SegStoppedEarly == pl = "seg" /\ pc = "done" /\ EpochsTrained < hp.num_epochs

(* C11: early stopping of node_seg_train can take effect. If any       *)
(* sequence of validation losses ends the loop early, then so does the *)
(* one that never improves after the first validated epoch; so: a run  *)
(* of node_seg_train that has ended and in which no validated epoch    *)
(* after the first improved has trained fewer than num_epochs epochs.  *)
C11_EarlyStoppingTakesEffect ==
  (pl = "seg" /\ pc = "done" /\ Stagnated) => EpochsTrained < hp.num_epochs


(* ------------------------------------------------------------------ *)
(* Loading pretrained weights: the loop over load_hdnet                *)
(* ------------------------------------------------------------------ *)

MaxLoadEntries == 2

(* load_hdnet of node_cls_train, in dict order *)
cls_load_hdnet == << >>

(* load_hdnet of node_cls_train_poly_unicomnet, in dict order *)
poly_load_hdnet == <<[net_name |-> "encoder1", weight_path |-> "encoder.pth"],
                     [net_name |-> "decoder1", weight_path |-> "decoder.pth"]>>

(* the pipelines that have the loading loop *)
LoadPipelines == {"cls", "poly"}

(* names a load_hdnet entry can carry: some are sub-networks of one    *)
(* pipeline and unknown to the other                                   *)
LoadNames == {e.net_name : e \in Range(poly_load_hdnet)} \cup {"encoder", "decoder"}

(* what is at weight_path: nothing, a state dict the sub-network       *)
(* accepts, or a file torch.load / load_state_dict raises on           *)
FileStates == {"absent", "loadable", "rejected"}

LoadEntries == [net_name : LoadNames, file : FileStates]

(* a dict has no two entries with one key *)
LoadDicts ==
  {d \in UNION {[1..n -> LoadEntries] : n \in 0..MaxLoadEntries} :
     \A i, j \in DOMAIN d : d[i].net_name = d[j].net_name => i = j}

LoadInit ==
  /\ pl \in LoadPipelines
  /\ FwdIdle
  /\ TrainIdle
  /\ LrIdle
  /\ StartIdle
  /\ BatchIdle
  /\ load_hdnet \in LoadDicts
  /\ load_idx = 0
  /\ weights = [n \in sub_networks(pl) |-> "initial"]
  /\ load_log = << >>
  /\ load_pc = "loop"

(* os.path.exists(weight_path) *)
Exists(file) == file # "absent"

CanLoad_known(known, exists) == known

(* if net_name in sub_networks and os.path.exists(weight_path) *)
CanLoad(known, exists) == known /\ exists

(* one iteration of "for net_name, weight_path in load_hdnet.items()": *)
(* an exception of torch.load or load_state_dict is caught nowhere     *)
LoadEntry ==
  /\ load_pc = "loop"
  /\ load_idx < Len(load_hdnet)
  /\ LET entry == load_hdnet[load_idx + 1]
         known == entry.net_name \in sub_networks(pl)
     IN  IF CanLoad(known, Exists(entry.file))
           THEN IF known /\ entry.file = "loadable"
                  THEN /\ weights' = [weights EXCEPT ![entry.net_name] = "loaded"]
                       /\ load_log' = Append(load_log, "info")
                       /\ load_idx' = load_idx + 1
                       /\ UNCHANGED load_pc
                  ELSE /\ load_pc' = "raised"
                       /\ UNCHANGED <<weights, load_log, load_idx>>
           ELSE /\ load_log' = Append(load_log, "warning")
                /\ load_idx' = load_idx + 1
                /\ UNCHANGED <<weights, load_pc>>
  /\ UNCHANGED <<pl, fwdVars, trainVars, lrVars, startVars, batchVars, load_hdnet>>

(* the loop is exhausted and main() goes on *)
LoadDone ==
  /\ load_pc = "loop"
  /\ load_idx = Len(load_hdnet)
  /\ load_pc' = "done"
  /\ UNCHANGED <<pl, fwdVars, trainVars, lrVars, startVars, batchVars, load_hdnet,
                 load_idx, weights, load_log>>

LoadNext == LoadEntry \/ LoadDone

LoadSpec == LoadInit /\ [][LoadNext]_vars

Known(i) == load_hdnet[i].net_name \in sub_networks(pl)

(* entry i was handled by loading its weights *)
Loaded(i) ==
  /\ i <= load_idx
  /\ load_log[i] = "info"
  /\ weights[load_hdnet[i].net_name] = "loaded"

(* entry i was handled by a warning that left the sub-network alone *)
Warned(i) ==
  /\ i <= load_idx
  /\ load_log[i] = "warning"
  /\ Known(i) => weights[load_hdnet[i].net_name] = "initial"

(* C12 as stated: weight loading never aborts start-up, and an entry   *)
(* is loaded if and only if its net_name is a sub-network and its file *)
(* exists; every other entry only logs a warning.                      *)
C12_LoadNeverAborts ==
  /\ load_pc # "raised"
  /\ Len(load_log) = load_idx
  /\ \A i \in 1..load_idx :
       /\ Loaded(i) <=> (Known(i) /\ Exists(load_hdnet[i].file))
       /\ ~Loaded(i) => Warned(i)
  /\ load_pc = "done" => load_idx = Len(load_hdnet)

(* C12, amended: an entry whose net_name is no sub-network or whose    *)
(* file does not exist only logs a warning, leaves the weights alone   *)
(* and lets the loop go on; an entry is loaded if and only if its      *)
(* net_name is a sub-network, its file exists and torch.load and       *)
(* load_state_dict accept the file; start-up aborts exactly at an      *)
(* existing file of a known sub-network that they reject.              *)
C12_LoadOrWarnOrRaise ==
  /\ Len(load_log) = load_idx
  /\ load_idx <= Len(load_hdnet)
  /\ \A i \in 1..load_idx :
       /\ Loaded(i) <=> (Known(i) /\ load_hdnet[i].file = "loadable")
       /\ ~Loaded(i) => Warned(i) /\ ~(Known(i) /\ Exists(load_hdnet[i].file))
  /\ \A n \in sub_networks(pl) :
       weights[n] = "loaded" => \E i \in 1..load_idx : load_hdnet[i].net_name = n
  /\ load_pc = "raised" =>
       /\ load_idx < Len(load_hdnet)
       /\ Known(load_idx + 1)
       /\ load_hdnet[load_idx + 1].file = "rejected"
  /\ load_pc = "loop" /\ load_idx < Len(load_hdnet) => ENABLED LoadEntry
  /\ load_pc = "done" => load_idx = Len(load_hdnet)

C12_Witness ==
  /\ pl = "poly"
  /\ load_pc = "done"
  /\ Len(load_hdnet) = 2
  /\ load_hdnet[1] = [net_name |-> "encoder1", file |-> "absent"]
  /\ load_hdnet[2] = [net_name |-> "decoder1", file |-> "loadable"]
  /\ load_log = <<"warning", "info">>
  /\ weights["encoder1"] = "initial"
  /\ weights["decoder1"] = "loaded"


(* ------------------------------------------------------------------ *)
(* The unicom sub-networks of node_cls_train_poly_unicomnet            *)
(* ------------------------------------------------------------------ *)

(* the comments on the nodes of node_configs_unicom_n5 .. unicom_n9:   *)
(* <<unicom net, its node, the net and the node the comment names>>    *)
poly_unicom_comments == {
   <<"unicom_n5", "n0", "encoder1", "n8">>, <<"unicom_n5", "n1", "decoder1", "n5">>,
   <<"unicom_n5", "n2", "encoder2", "n8">>, <<"unicom_n5", "n3", "decoder2", "n5">>,
   <<"unicom_n6", "n0", "encoder1", "n7">>, <<"unicom_n6", "n1", "decoder1", "n6">>,
   <<"unicom_n6", "n2", "encoder2", "n7">>, <<"unicom_n6", "n3", "decoder2", "n6">>,
   <<"unicom_n7", "n0", "encoder1", "n6">>, <<"unicom_n7", "n1", "decoder1", "n7">>,
   <<"unicom_n7", "n2", "encoder2", "n6">>, <<"unicom_n7", "n3", "decoder2", "n7">>,
   <<"unicom_n8", "n0", "encoder1", "n5">>, <<"unicom_n8", "n1", "decoder1", "n8">>,
   <<"unicom_n8", "n2", "encoder2", "n5">>, <<"unicom_n8", "n3", "decoder2", "n8">>,
   <<"unicom_n9", "n0", "decoder1", "n9">>, <<"unicom_n9", "n1", "decoder1", "n9">>,
   <<"unicom_n9", "n2", "encoder2", "n0">>, <<"unicom_n9", "n3", "decoder2", "n9">>}

(* node_mapping puts both nodes on one global node *)
SameGlobalNode(p, net, n, net2, n2) == MappedTo(p, net, n) \cap MappedTo(p, net2, n2) # {}

(* the commented unicom nodes that node_mapping does not glue as commented *)
NotGluedAsCommented ==
  {c \in poly_unicom_comments : ~SameGlobalNode("poly", c[1], c[2], c[3], c[4])}

(* C13: in node_cls_train_poly_unicomnet every node n0..n3 of          *)
(* unicom_n5..unicom_n9 shares a global node with the encoder or       *)
(* decoder node that its configuration comment names.                  *)
C13_UnicomGluedAsCommented == pl = "poly" => NotGluedAsCommented = {}


(* ------------------------------------------------------------------ *)
(* The checkpoint files of the pipelines that save per sub-network     *)
(* ------------------------------------------------------------------ *)

(* the pipelines that save through save_hdnet *)
HdnetPipelines == {"cls", "poly"}

save_hdnet(p) ==
  CASE p = "cls" -> cls_save_hdnet
    [] p = "poly" -> poly_save_hdnet

(* every sub-network has its own entry and its own file *)
SaveCoversSubNetworks(p) ==
  /\ sub_networks(p) \subseteq DOMAIN save_hdnet(p)
  /\ \A n, m \in sub_networks(p) : save_hdnet(p)[n] = save_hdnet(p)[m] => n = m

(* the epoch whose weights the file of sub-network n holds; 0: no file *)
SavedEpoch(n) == disk[save_hdnet(pl)[n]]

C14_SameEpoch ==
  pl \in HdnetPipelines =>
    /\ SaveCoversSubNetworks(pl)
    /\ \A n \in sub_networks(pl) :
         /\ save_hdnet(pl)[n] \in DOMAIN disk
         /\ \A m \in sub_networks(pl) : SavedEpoch(n) = SavedEpoch(m)
         /\ SavedEpoch(n) \in written \cup {0}
         /\ \A e \in written : e <= SavedEpoch(n)

C14_SaveStep ==
  (pl \in HdnetPipelines /\ best_val_loss' < best_val_loss) =>
    /\ written' = written \cup {epoch + 1}
    /\ \A n \in sub_networks(pl) : disk'[save_hdnet(pl)[n]] = epoch + 1

(* C14: in node_cls_train and node_cls_train_poly_unicomnet save_hdnet *)
(* has an entry for every sub-network; each time the validation        *)
(* criterion improves, the weights of all sub-networks are written in  *)
(* that epoch, and the checkpoint files on disk all come from one and  *)
(* the same epoch, the last one that improved.                         *)
C14_CheckpointsOfOneEpoch == [](C14_SameEpoch) /\ [][C14_SaveStep]_vars

C14_Witness ==
  /\ pl = "poly"
  /\ pc = "seeds"
  /\ epoch = 3
  /\ written = {1, 3}
  /\ Cardinality(DOMAIN disk) = 15
  /\ \A n \in sub_networks(pl) : SavedEpoch(n) = 3


(* ------------------------------------------------------------------ *)
(* Data preparation of main(): case ids, split file, datasets, the     *)
(* case-id validation and the DataLoaders                              *)
(* ------------------------------------------------------------------ *)

MaxDeviating == 1

(* the case ids a data directory can hold, in sorted order *)
SortedCaseIds == <<"001", "002">>

CaseIds == Range(SortedCaseIds)

(* sorted(list(ids)) *)
Sorted(ids) == SelectSeq(SortedCaseIds, LAMBDA c : c \in ids)

(* the keys of filename_to_nodes / suffix_to_nodes *)
Filenames(p) == {x[2] : x \in Range(load_node(p))}

(* get_case_ids for every filename: what one data directory holds *)
Listings(p) == [Filenames(p) -> SUBSET CaseIds]

UnionOfCaseIds(listing) == UNION {listing[f] : f \in DOMAIN listing}

CommonCaseIds(listing) == {c \in CaseIds : \A f \in DOMAIN listing : c \in listing[f]}

(* node_cls_train and the poly pipeline take the union over the        *)
(* filenames, node_seg_train the intersection over the suffixes        *)
CollectedCaseIds(p, listing) ==
  IF p = "seg" THEN CommonCaseIds(listing) ELSE UnionOfCaseIds(listing)

(* np.random.permutation(train_case_ids).tolist() *)
PermutationsOf(ids) ==
  {s \in [1..Cardinality(ids) -> ids] : \A i, j \in DOMAIN s : s[i] = s[j] => i = j}

NoFile == << >>

StartInit ==
  /\ pl \in Pipelines
  /\ FwdIdle
  /\ TrainIdle
  /\ LrIdle
  /\ LoadIdle
  /\ BatchIdle
  /\ start_pc = "train_ids"
  /\ train_case_ids = {}
  /\ val_case_ids = {}
  /\ split_file = NoFile
  /\ ds_train = << >>
  /\ ds_val = << >>
  /\ dataloaders = {}
  /\ error_log = {}

(* the case ids of the train directory *)
CollectTrainCaseIds ==
  /\ start_pc = "train_ids"
  /\ \E listing \in Listings(pl) : train_case_ids' = CollectedCaseIds(pl, listing)
  /\ start_pc' = "val_ids"
  /\ UNCHANGED <<pl, fwdVars, trainVars, lrVars, loadVars, batchVars, val_case_ids,
                 split_file, ds_train, ds_val, dataloaders, error_log>>

(* the case ids of the val directory *)
CollectValCaseIds ==
  /\ start_pc = "val_ids"
  /\ \E listing \in Listings(pl) : val_case_ids' = CollectedCaseIds(pl, listing)
  /\ start_pc' = "check_ids"
  /\ UNCHANGED <<pl, fwdVars, trainVars, lrVars, loadVars, batchVars, train_case_ids,
                 split_file, ds_train, ds_val, dataloaders, error_log>>

NoCaseIds_train(train_ids, val_ids) == train_ids = {}

(* if not train_case_ids: raise ...; if not val_case_ids: raise ... *)
NoCaseIds(train_ids, val_ids) == train_ids = {} \/ val_ids = {}

CheckCaseIds ==
  /\ start_pc = "check_ids"
  /\ start_pc' = IF NoCaseIds(train_case_ids, val_case_ids) THEN "ValueError" ELSE "split"
  /\ UNCHANGED <<pl, fwdVars, trainVars, lrVars, loadVars, batchVars, train_case_ids,
                 val_case_ids, split_file, ds_train, ds_val, dataloaders, error_log>>

(* the train order is drawn and the split information is dumped *)
SaveSplit ==
  /\ start_pc = "split"
  /\ \E order \in PermutationsOf(train_case_ids) :
       split_file' = [train_case_ids |-> Sorted(train_case_ids),
                      val_case_ids |-> Sorted(val_case_ids),
                      train_case_id_order |-> order,
                      val_case_id_order |-> Sorted(val_case_ids)]
  /\ start_pc' = "datasets"
  /\ UNCHANGED <<pl, fwdVars, trainVars, lrVars, loadVars, batchVars, train_case_ids,
                 val_case_ids, ds_train, ds_val, dataloaders, error_log>>

(* the case_ids a NodeDataset can end up with when it is not the       *)
(* case_id_order it was given: a case dropped, or another order        *)
Deviations(order) ==
  {Tail(order), [i \in DOMAIN order |-> order[Len(order) + 1 - i]]} \ {order}

(* node -> case_ids of its dataset, at most MaxDeviating of them deviating *)
DatasetCaseIds(p, order) ==
  {ds \in [DatasetNodes(p) -> {order} \cup Deviations(order)] :
     Cardinality({n \in DatasetNodes(p) : ds[n] # order}) <= MaxDeviating}

(* the loop that builds datasets_train and datasets_val *)
CreateDatasets ==
  /\ start_pc = "datasets"
  /\ IF DatasetNodes(pl) \subseteq GlobalNames(pl)
       THEN /\ ds_train' \in DatasetCaseIds(pl, split_file.train_case_id_order)
            /\ ds_val' \in DatasetCaseIds(pl, split_file.val_case_id_order)
            /\ start_pc' = "check_order"
       ELSE /\ start_pc' = "ValueError"
            /\ UNCHANGED <<ds_train, ds_val>>
  /\ UNCHANGED <<pl, fwdVars, trainVars, lrVars, loadVars, batchVars, train_case_ids,
                 val_case_ids, split_file, dataloaders, error_log>>

(* list(datasets_train.keys()): the nodes in the order of load_node *)
NodeOrder(p) == [i \in DOMAIN load_node(p) |-> load_node(p)[i][1]]

(* datasets[node].case_ids != datasets[list(datasets.keys())[0]].case_ids *)
Mismatch(ds, node) == ds[node] # ds[NodeOrder(pl)[1]]

(* the positions at which the validation loop raises *)
Raising(p) ==
  {i \in DOMAIN NodeOrder(p) :
     \/ Mismatch(ds_train, NodeOrder(p)[i])
     \/ p # "poly" /\ Mismatch(ds_val, NodeOrder(p)[i])}

(* the positions at which the loop calls logger.error *)
Logging(p) ==
  IF p = "poly"
    THEN {i \in DOMAIN NodeOrder(p) :
            Mismatch(ds_train, NodeOrder(p)[i]) \/ Mismatch(ds_val, NodeOrder(p)[i])}
    ELSE {}

(* "Validate case_id_order consistency across nodes": the loop runs up *)
(* to the first position that raises                                   *)
ValidateCaseIdOrder ==
  /\ start_pc = "check_order"
  /\ LET last == IF Raising(pl) = {} THEN Len(NodeOrder(pl))
                 ELSE CHOOSE i \in Raising(pl) : \A j \in Raising(pl) : i <= j
     IN  /\ error_log' = {NodeOrder(pl)[i] : i \in {j \in Logging(pl) : j <= last}}
         /\ start_pc' = IF Raising(pl) = {} THEN "dataloaders" ELSE "ValueError"
  /\ UNCHANGED <<pl, fwdVars, trainVars, lrVars, loadVars, batchVars, train_case_ids,
                 val_case_ids, split_file, ds_train, ds_val, dataloaders>>

(* the loop that builds dataloaders_train and dataloaders_val *)
CreateDataLoaders ==
  /\ start_pc = "dataloaders"
  /\ dataloaders' = DOMAIN ds_train
  /\ start_pc' = "ready"
  /\ UNCHANGED <<pl, fwdVars, trainVars, lrVars, loadVars, batchVars, train_case_ids,
                 val_case_ids, split_file, ds_train, ds_val, error_log>>

StartNext ==
  \/ CollectTrainCaseIds
  \/ CollectValCaseIds
  \/ CheckCaseIds
  \/ SaveSplit
  \/ CreateDatasets
  \/ ValidateCaseIdOrder
  \/ CreateDataLoaders

StartSpec == StartInit /\ [][StartNext]_vars

(* main() is past the two "if not ..._case_ids" statements *)
PastCaseIdCheck == start_pc \notin {"train_ids", "val_ids", "check_ids"}

(* C15: when the train directory or the val directory yields no case   *)
(* ids, each pipeline raises ValueError, and it does so before the     *)
(* split file is written, before any dataset or DataLoader is created  *)
(* and before the epoch loop is reached.                               *)
C15_NoCaseIdsRaises ==
  (PastCaseIdCheck /\ (train_case_ids = {} \/ val_case_ids = {})) =>
    /\ start_pc = "ValueError"
    /\ split_file = NoFile
    /\ ds_train = << >>
    /\ ds_val = << >>
    /\ dataloaders = {}

C15_Witness ==
  /\ pl = "seg"
  /\ start_pc = "ValueError"
  /\ train_case_ids = {"001"}
  /\ val_case_ids = {}
  /\ split_file = NoFile
  /\ dataloaders = {}


(* some node's dataset has other case_ids than the first node's *)
CaseIdsDiffer ==
  /\ ds_train # << >>
  /\ \E n \in DOMAIN ds_train : Mismatch(ds_train, n) \/ Mismatch(ds_val, n)

(* C16: in every pipeline, if the case_ids of any node's train dataset *)
(* or validation dataset differ from those of the first node, main()   *)
(* raises ValueError before any DataLoader is created.                 *)
C16_CaseIdOrderValidated ==
  CaseIdsDiffer =>
    /\ start_pc \in {"check_order", "ValueError"}
    /\ dataloaders = {}

(* the same for the train datasets of every pipeline and the           *)
(* validation datasets of node_cls_train and node_seg_train            *)
CaseIdOrderValidatedExceptPolyVal ==
  (CaseIdsDiffer /\ ~(pl = "poly" /\ \A n \in DOMAIN ds_train : ~Mismatch(ds_train, n))) =>
    /\ start_pc \in {"check_order", "ValueError"}
    /\ dataloaders = {}


(* ------------------------------------------------------------------ *)
(* The batch loop of train() and validate()                            *)
(* ------------------------------------------------------------------ *)

MaxLoaders == 2

MaxDatasetLen == 2

MaxBatchSize == 2

(* the keys of the dataloaders argument, in dict order *)
LoaderNodes(p) == {NodeOrder(p)[i] : i \in 1..MaxLoaders}

(* every node's dataset holds length case ids *)
LoaderCaseIds(p, length) == [LoaderNodes(p) -> [1..length -> CaseIds]]

BatchInit ==
  /\ pl \in Pipelines
  /\ FwdIdle
  /\ TrainIdle
  /\ LrIdle
  /\ LoadIdle
  /\ StartIdle
  /\ fn \in {"train", "validate"}
  /\ \E length \in 1..MaxDatasetLen :
       /\ loader_case_ids \in LoaderCaseIds(pl, length)
       /\ batch_size \in 1..MaxBatchSize
       /\ num_batches = length \div batch_size
       /\ num_batches >= 1
  /\ batch_no = 0
  /\ warnings = 0
  /\ forwards = 0
  /\ loss_terms = 0
  /\ optimizer_steps = 0

(* dataset.case_ids[start_idx:end_idx] of batch b *)
current_case_ids(node, b) ==
  LET ids == loader_case_ids[node]
      start_idx == b * batch_size
      end_idx == IF (b + 1) * batch_size < Len(ids) THEN (b + 1) * batch_size ELSE Len(ids)
  IN  SubSeq(ids, start_idx + 1, end_idx)

(* all(set(cids) == batch_case_ids_set for cids in batch_case_ids) *)
CaseIdsConsistent(b) ==
  \A node \in DOMAIN loader_case_ids :
    Range(current_case_ids(node, b)) = Range(current_case_ids(NodeOrder(pl)[1], b))

GoesOn_consistent(consistent) == consistent

(* after the check the loop body goes on whatever the check found *)
GoesOn(consistent) == TRUE

(* one iteration of "for batch_idx in range(num_batches)" *)
ProcessBatch ==
  /\ fn \in {"train", "validate"}
  /\ batch_no < num_batches
  /\ warnings' = IF CaseIdsConsistent(batch_no) THEN warnings ELSE warnings + 1
  /\ IF GoesOn(CaseIdsConsistent(batch_no))
       THEN /\ forwards' = forwards + 1
            /\ loss_terms' = loss_terms + 1
            /\ optimizer_steps' = IF fn = "train" THEN optimizer_steps + 1 ELSE optimizer_steps
       ELSE UNCHANGED <<forwards, loss_terms, optimizer_steps>>
  /\ batch_no' = batch_no + 1
  /\ UNCHANGED <<pl, fwdVars, trainVars, lrVars, loadVars, startVars, fn, loader_case_ids,
                 batch_size, num_batches>>

BatchNext == ProcessBatch

BatchSpec == BatchInit /\ [][BatchNext]_vars

(* the batches handled so far whose case-id sets differ between nodes *)
InconsistentBatches == {b \in 0..(batch_no - 1) : ~CaseIdsConsistent(b)}

(* C17: train() and validate() compare the case-id sets of all nodes   *)
(* on every batch and only log a warning on a mismatch: every batch,   *)
(* consistent or not, is passed to the model and adds to the losses,   *)
(* and in train() it is followed by backward() and optimizer.step().   *)
C17_MismatchOnlyWarns ==
  /\ warnings = Cardinality(InconsistentBatches)
  /\ forwards = batch_no
  /\ loss_terms = batch_no
  /\ optimizer_steps = IF fn = "train" THEN batch_no ELSE 0

C17_Witness ==
  /\ fn = "train"
  /\ batch_no = 2
  /\ InconsistentBatches = {1}
  /\ warnings = 1
  /\ forwards = 2
  /\ loss_terms = 2
  /\ optimizer_steps = 2

====
